---- MODULE Spec2Model ----
(***************************************************************************)
(* Model of samples/level13_MetamorphicDropper.c: the RC4 stream cipher,   *)
(* the encrypted string table and its key recovery, the anti-debugging     *)
(* probes, the self-modification gate and the flattened dispatcher (main). *)
(*                                                                         *)
(* C arrays are modelled as TLA+ sequences: C index n is sequence index    *)
(* n + 1.  The 256-entry table S is a function on 0..255.  A C string is   *)
(* the sequence of its bytes without the terminating NUL; NULL stands for  *)
(* the null pointer.                                                       *)
(***************************************************************************)
EXTENDS Integers, Sequences, FiniteSets, TLC

VARIABLES
    \* --- cipher harness (SpecCipher, SpecSteps) ---
    key,        \* the key handed to _rc4i
    buf,        \* the data buffer handed to _rc4x
    orig,       \* the buffer as it was before the first _rc4x
    ctx,        \* the _rc4 context: [S, i, j]
    cpc,        \* position of the harness
    lv,         \* the locals of _rc4i / _rc4x: [i, j, k]
    \* --- the process (SpecVault, Spec) ---
    sentinel,   \* getpid() of the process
    _rk,        \* static unsigned char _rk[KS_LEN]
    _key_ready, \* static int _key_ready
    decodes,    \* history: every _ds call so far, [off, len, out]
    image,      \* the bytes of _ks and _st in the process: [ks, st]
    proc_status, \* the lines of /proc/self/status (SpecProbe)
    threads,    \* concurrent callers of _ds (SpecRace): each one's position
    \* --- main (Spec) ---
    state,      \* unsigned int state
    retval,     \* int retval
    _sm_flag,   \* static volatile int _sm_flag
    exited,     \* main has returned
    exit_code,  \* what main returned (-1 while it runs)
    calls,      \* history: the helpers main has called, [fn, ret]
    sys,        \* history: the system calls made, [call, args, res]
    trace       \* history: the state tokens dispatched so far

cvars == <<key, buf, orig, cpc, lv>>
mvars == <<state, retval, _sm_flag, exited, exit_code, calls, sys, trace>>
vars == <<key, buf, orig, ctx, cpc, lv, sentinel, image, _rk, _key_ready, decodes, threads, proc_status,
          state, retval, _sm_flag, exited, exit_code, calls, sys, trace>>

(***************************************************************************)
(* Bounds of the model                                                     *)
(***************************************************************************)
MaxKeyLen == 2
MaxDataLen == 2

(***************************************************************************)
(* Byte arithmetic                                                         *)
(***************************************************************************)
\* the null pointer: no byte string (bytes are 0..255)
NULL == <<-1>>

\* F(v), with v evaluated once before F is applied to it
Bind(v, F(_)) == CHOOSE y \in {F(x) : x \in {v}} : TRUE

\* x & 0xFF for an int x (two's complement): the low eight bits
And0xFF(x) == x % 256

RECURSIVE XorBits(_, _, _)
XorBits(a, b, n) ==
    IF n = 0 THEN 0
    ELSE ((a + b) % 2) + 2 * XorBits(a \div 2, b \div 2, n - 1)

\* a plausible slip: the keystream byte is added instead of XOR-ed
Xor8_add(a, b) == (a + b) % 256

\* a ^ b on unsigned char
Xor8(a, b) == XorBits(a, b, 8)

(***************************************************************************)
(* Encrypted string table, masked key, directory                           *)
(***************************************************************************)
_ks == <<
    194, 205, 149, 214, 209, 250, 206, 150, 220, 250, 151, 149,
    151, 145 >>
KS_LEN == 14
KS_MASK == 165

_st == <<
    146, 151, 199, 187, 229, 241, 138, 196, 190, 178, 105, 11,
    157, 157, 37, 30, 108, 66, 139, 185, 160, 17, 98, 241,
    142, 219, 161, 254, 33, 16, 151, 130, 55, 110, 114, 79,
    131, 189, 139, 219, 162, 182, 138, 221, 190, 167, 33, 76,
    151, 150, 48, 44, 111, 70, 139, 251, 175, 80, 108, 196,
    6, 198, 206, 200, 243, 93, 181, 161, 130, 111, 243, 145,
    241, 138, 196, 190, 178, 107, 13, 145, 156, 40, 49, 107,
    4, 157, 189, 189, 150, 196, 161, 249, 46, 72, 138, 206,
    126, 53, 114, 90, 193, 176, 162, 92, 115, 146, 19, 220,
    131, 201, 226, 13, 231, 169, 209, 40, 168, 32, 229, 100,
    248, 201, 156, 213, 138, 33, 183, 26, 159, 226, 241, 142,
    219, 161, 254, 33, 16, 151, 130, 55, 110, 108, 94, 143,
    161, 185, 76, 138, 140, 200, 173, 248, 124, 51, 155, 138,
    241, 154, 204, 184, 178, 96, 22, 158, 130, 241, 156, 192,
    160, 178, 125, 11, 243, 157 >>

\* (offset, length) of each string
S_LINUX        == <<0, 5>>
S_MARKER       == <<5, 18>>
S_PROC_MEM     == <<23, 14>>
S_CURL         == <<37, 4>>
S_C2_URL       == <<41, 29>>
S_DASH_O       == <<70, 2>>
S_PAYLOAD_PATH == <<72, 15>>
S_EXEC_CMD     == <<87, 43>>
S_PROC_STATUS  == <<130, 17>>
S_TRACER       == <<147, 9>>
S_DEV_NULL     == <<156, 9>>
S_BIN_SH       == <<165, 7>>
\* a plausible slip: an offset one too small
S_DASH_C_early == <<171, 2>>
S_DASH_C       == <<172, 2>>

Directory ==
    { S_LINUX, S_MARKER, S_PROC_MEM, S_CURL, S_C2_URL, S_DASH_O,
      S_PAYLOAD_PATH, S_EXEC_CMD, S_PROC_STATUS, S_TRACER, S_DEV_NULL,
      S_BIN_SH, S_DASH_C }

\* _ks[i] ^ m for every byte of the masked key
Unmask(m) == [n \in 1..KS_LEN |-> Xor8(_ks[n], m)]

(***************************************************************************)
(* Bounded inputs of the cipher                                            *)
(***************************************************************************)
RECURSIVE SeqsUpTo(_, _)
SeqsUpTo(S, n) ==
    IF n = 0 THEN {<<>>}
    ELSE LET P == SeqsUpTo(S, n - 1)
         IN  P \cup {Append(s, x) : s \in {t \in P : Len(t) = n - 1}, x \in S}

KeyBytes == {0, 1, 255}
DataBytes == {0, 90, 255}

\* the key of the sample, "gh0st_k3y_2024"
SampleKey == Unmask(KS_MASK)

Keys == (SeqsUpTo(KeyBytes, MaxKeyLen) \ {<<>>}) \cup {SampleKey}
Datas == SeqsUpTo(DataBytes, MaxDataLen)

(***************************************************************************)
(* RC4 stream cipher (_rc4, _rc4i, _rc4x)                                  *)
(***************************************************************************)
\* for (i = 0; i < 256; i++) c->S[i] = i;
IdentityS == [n \in 0..255 |-> n]

\* a plausible slip: the swap without the temporary, S[i] = S[j]; S[j] = S[i]
_rc4i_step_notemp(S, j, i, k, kl) ==
    LET j2 == And0xFF(j + S[i] + k[(i % kl) + 1])
    IN  [S |-> [S EXCEPT ![i] = S[j2]], j |-> j2]

\* one iteration of the key-scheduling loop: j is updated, S[i] and S[j] swap
_rc4i_step(S, j, i, k, kl) ==
    LET j2 == And0xFF(j + S[i] + k[(i % kl) + 1])
    IN  [S |-> [S EXCEPT ![i] = S[j2], ![j2] = S[i]], j |-> j2]

\* the key-scheduling loop for i in lo..hi-1, on r = [S, j]; the range is
\* halved, and the first half is evaluated before the second starts, so
\* that the evaluation depth stays logarithmic
RECURSIVE _rc4i_loop(_, _, _, _, _)
_rc4i_loop(r, lo, hi, k, kl) ==
    IF hi <= lo THEN r
    ELSE IF hi = lo + 1 THEN _rc4i_step(r.S, r.j, lo, k, kl)
    ELSE Bind(_rc4i_loop(r, lo, (lo + hi) \div 2, k, kl),
              LAMBDA h : _rc4i_loop(h, (lo + hi) \div 2, hi, k, kl))

\* S after both loops of _rc4i (int i, j = 0)
_rc4i_loops(k, kl) ==
    Bind([S |-> IdentityS, j |-> 0], LAMBDA r : _rc4i_loop(r, 0, 256, k, kl)).S

\* the key schedules of the keys the model uses, computed once
\* _rk while the loop of _recover_key has stored its first p bytes
PartialKey(p) == [n \in 1..KS_LEN |-> IF n <= p THEN Unmask(KS_MASK)[n] ELSE 0]

KsaKeys ==
    Keys \cup {Unmask(KS_MASK), Unmask(255)} \cup {PartialKey(p) : p \in 0..KS_LEN}
KsaTable == [k \in KsaKeys |-> _rc4i_loops(k, Len(k))]

_rc4i_S(k, kl) ==
    IF k \in KsaKeys /\ kl = Len(k) THEN KsaTable[k] ELSE _rc4i_loops(k, kl)

\* a plausible slip: the cursors of the context are not reset after the
\* key schedule, so they keep whatever the context held before
_rc4i_keep(c, k, kl) ==
    [S |-> _rc4i_S(k, kl), i |-> c.i, j |-> c.j]

\* _rc4i(c, k, kl): every field of *c is overwritten
_rc4i(c, k, kl) ==
    [S |-> _rc4i_S(k, kl), i |-> 0, j |-> 0]

\* one iteration of the _rc4x loop on data byte b
_rc4x_step(c, b) ==
    LET i2 == And0xFF(c.i + 1)
        j2 == And0xFF(c.j + c.S[i2])
    IN  Bind([c.S EXCEPT ![i2] = c.S[j2], ![j2] = c.S[i2]],
             LAMBDA S2 : [c |-> [S |-> S2, i |-> i2, j |-> j2],
                          b |-> Xor8(b, S2[And0xFF(S2[i2] + S2[j2])])])

\* the _rc4x loop for k in lo..hi-1, on r = [c, d]
RECURSIVE _rc4x_loop(_, _, _)
_rc4x_loop(r, lo, hi) ==
    IF hi <= lo THEN r
    ELSE IF hi = lo + 1
    THEN Bind(_rc4x_step(r.c, r.d[lo + 1]),
              LAMBDA t : [c |-> t.c, d |-> [r.d EXCEPT ![lo + 1] = t.b]])
    ELSE Bind(_rc4x_loop(r, lo, (lo + hi) \div 2),
              LAMBDA h : _rc4x_loop(h, (lo + hi) \div 2, hi))

\* _rc4x(c, d, l): returns the context and the buffer after the call
_rc4x(c, d, l) == Bind([c |-> c, d |-> d], LAMBDA r : _rc4x_loop(r, 0, l))

(***************************************************************************)
(* Key recovery and string decryption (_recover_key, _ds)                  *)
(*                                                                         *)
(* V = [rk, ready, ctx] is what the two functions read and write: the      *)
(* statics _rk and _key_ready, and the stack slot that _ds uses for its    *)
(* local _rc4 ctx (on entry it holds what was last written there).         *)
(***************************************************************************)
\* A 32-bit word (int or unsigned int) is kept as its four bytes, least
\* significant first, so that sums and products wrap modulo 2^32 as the
\* machine's do.  W32(x) is the word of x, for 0 <= x < 2^31.
W32(x) ==
    << x % 256, (x \div 256) % 256, (x \div 65536) % 256,
       (x \div 16777216) % 256 >>

Add32(a, b) ==
    LET s1 == a[1] + b[1]
        s2 == a[2] + b[2] + (s1 \div 256)
        s3 == a[3] + b[3] + (s2 \div 256)
        s4 == a[4] + b[4] + (s3 \div 256)
    IN  << s1 % 256, s2 % 256, s3 % 256, s4 % 256 >>

Mul32(a, b) ==
    LET p1 == a[1] * b[1]
        p2 == a[1] * b[2] + a[2] * b[1] + (p1 \div 256)
        p3 == a[1] * b[3] + a[2] * b[2] + a[3] * b[1] + (p2 \div 256)
        p4 == a[1] * b[4] + a[2] * b[3] + a[3] * b[2] + a[4] * b[1]
                + (p3 \div 256)
    IN  << p1 % 256, p2 % 256, p3 % 256, p4 % 256 >>

\* w % 2 != 0 (for an int as for an unsigned int: the low bit is set)
Odd32(w) == w[1] % 2 # 0

\* a plausible slip: no ready guard, and the unmasking works in place on
\* the key buffer once it has been filled
_recover_key_inplace(V, pid) ==
    [V EXCEPT !.rk = IF V.ready = 0 THEN [n \in 1..KS_LEN |-> Xor8(V.ks[n], KS_MASK)]
                     ELSE [n \in 1..KS_LEN |-> Xor8(V.rk[n], KS_MASK)],
              !.ready = 1]

_recover_key(V, pid) ==
    IF V.ready # 0 THEN V
    ELSE LET _op == W32(pid)
         IN  [V EXCEPT !.rk = IF Odd32(Add32(Mul32(_op, _op), _op))
                              THEN [n \in 1..KS_LEN |-> Xor8(V.ks[n], 255)]
                              ELSE [n \in 1..KS_LEN |-> Xor8(V.ks[n], KS_MASK)],
                       !.ready = 1]

\* a plausible slip: no copy is made, the slice is decrypted where it lies
_ds_inplace(V, pid, off, len, ok) ==
    Bind(_recover_key(V, pid), LAMBDA V1 :
        IF ~ok THEN [V |-> V1, out |-> NULL]
        ELSE Bind(_rc4x(_rc4i(V1.ctx, V1.rk, KS_LEN),
                        SubSeq(V1.st, off + 1, off + len), len),
                  LAMBDA r : [V |-> [V1 EXCEPT !.ctx = r.c,
                                       !.st = [n \in 1..Len(V1.st) |->
                                                 IF n > off /\ n <= off + len
                                                 THEN r.d[n - off] ELSE V1.st[n]]],
                              out |-> r.d]))

\* _ds(off, len); ok: malloc(len + 1) succeeds.  Returns the new V and the
\* string (NULL when malloc fails)
_ds(V, pid, off, len, ok) ==
    Bind(_recover_key(V, pid), LAMBDA V1 :
        IF ~ok THEN [V |-> V1, out |-> NULL]
        ELSE Bind(_rc4x(_rc4i(V1.ctx, V1.rk, KS_LEN),
                        SubSeq(V1.st, off + 1, off + len), len),
                  LAMBDA r : [V |-> [V1 EXCEPT !.ctx = r.c], out |-> r.d]))

(***************************************************************************)
(* Cipher harness: apply(init(k), apply(init(k), d)) on bounded inputs     *)
(***************************************************************************)
\* an _rc4 on the stack before _rc4i has run (_rc4 ctx; in _ds): S and the
\* cursors hold whatever the stack held, sampled here by two contexts
StackCtx ==
    { [S |-> [n \in 0..255 |-> 0],   i |-> -1,  j |-> 256],
      [S |-> [n \in 0..255 |-> 204], i |-> 77,  j |-> 3] }

NoLocals == [i |-> 0, j |-> 0, k |-> 0]

\* the cipher harness runs no process
pvars == <<sentinel, image, _rk, _key_ready, decodes, mvars>>
NoMain ==
    /\ state = 0 /\ retval = 0 /\ _sm_flag = 0 /\ exited = FALSE
    /\ exit_code = -1 /\ calls = <<>> /\ sys = <<>> /\ trace = <<>>
\* the program is one thread
NoThreads == threads = <<>>
\* no status file is looked at
NoStatus == proc_status = <<>>
NoProcess ==
    /\ sentinel = 0 /\ image = <<>> /\ _rk = <<>> /\ _key_ready = 0 /\ decodes = <<>> /\ NoMain
    /\ NoThreads
    /\ NoStatus

\* _rc4 ctx; _rc4i(&ctx, k, kl); _rc4x(&ctx, d, len): context and buffer after
Cipher(c, k, d) ==
    Bind(_rc4i(c, k, Len(k)), LAMBDA c0 : _rc4x(c0, d, Len(d)))

InitCipher ==
    /\ key \in Keys
    /\ buf \in Datas
    /\ orig = buf
    /\ ctx \in StackCtx
    /\ cpc = "enc"
    /\ lv = NoLocals
    /\ NoProcess

\* first apply(init(k), d)
Encrypt ==
    /\ cpc = "enc"
    /\ LET r == Cipher(ctx, key, buf)
       IN  ctx' = r.c /\ buf' = r.d
    /\ cpc' = "dec"
    /\ UNCHANGED <<proc_status, key, orig, lv, pvars, threads>>

\* second apply(init(k), .), on a context of its own (a fresh stack slot)
Decrypt ==
    /\ cpc = "dec"
    /\ \E c \in StackCtx :
         LET r == Cipher(c, key, buf)
         IN  ctx' = r.c /\ buf' = r.d
    /\ cpc' = "done"
    /\ UNCHANGED <<proc_status, key, orig, lv, pvars, threads>>

NextCipher == Encrypt \/ Decrypt

SpecCipher == InitCipher /\ [][NextCipher]_vars

\* C8: the stream cipher is self-inverse under matching fresh state: for
\* every non-empty key k and every byte sequence d (the empty one included),
\* apply(init(k), apply(init(k), d)) = d, each apply on a context of its own.
CipherSelfInverse == cpc = "done" => buf = orig

\* a round trip of at least two bytes under the sample's key has completed
CipherRoundTripDone ==
    cpc = "done" /\ key = SampleKey /\ Len(orig) >= 2 /\ buf = orig

(***************************************************************************)
(* The same cipher, one loop iteration per step (SpecSteps)                *)
(***************************************************************************)
MaxStepDataLen == 3

StepDatas == SeqsUpTo({90}, MaxStepDataLen)

InitSteps ==
    /\ key \in Keys
    /\ buf \in StepDatas
    /\ orig = buf
    /\ ctx \in StackCtx
    /\ cpc = "fill"
    /\ lv = NoLocals
    /\ NoProcess

\* _rc4i: int i, j = 0; for (i = 0; i < 256; i++) c->S[i] = i; then i = 0
Fill ==
    /\ cpc = "fill"
    /\ ctx' = [ctx EXCEPT !.S = IdentityS]
    /\ lv' = [i |-> 0, j |-> 0, k |-> 0]
    /\ cpc' = "ksa"
    /\ UNCHANGED <<proc_status, key, buf, orig, pvars, threads>>

\* one iteration of the second loop of _rc4i, and its i++
KsaStep ==
    /\ cpc = "ksa"
    /\ lv.i < 256
    /\ LET r == _rc4i_step(ctx.S, lv.j, lv.i, key, Len(key))
       IN  /\ ctx' = [ctx EXCEPT !.S = r.S]
           /\ lv' = [lv EXCEPT !.i = lv.i + 1, !.j = r.j]
    /\ UNCHANGED <<proc_status, key, buf, orig, cpc, pvars, threads>>

\* loop exit of _rc4i: c->i = c->j = 0; and entry of _rc4x (k = 0)
KsaEnd ==
    /\ cpc = "ksa"
    /\ ~(lv.i < 256)
    /\ ctx' = [ctx EXCEPT !.i = 0, !.j = 0]
    /\ lv' = [lv EXCEPT !.k = 0]
    /\ cpc' = "x"
    /\ UNCHANGED <<proc_status, key, buf, orig, pvars, threads>>

\* one iteration of the loop of _rc4x, and its k++
XStep ==
    /\ cpc = "x"
    /\ lv.k < Len(buf)
    /\ LET r == _rc4x_step(ctx, buf[lv.k + 1])
       IN  /\ ctx' = r.c
           /\ buf' = [buf EXCEPT ![lv.k + 1] = r.b]
    /\ lv' = [lv EXCEPT !.k = lv.k + 1]
    /\ UNCHANGED <<proc_status, key, orig, cpc, pvars, threads>>

\* loop exit of _rc4x
XEnd ==
    /\ cpc = "x"
    /\ ~(lv.k < Len(buf))
    /\ cpc' = "done"
    /\ UNCHANGED <<proc_status, key, buf, orig, ctx, lv, pvars, threads>>

NextSteps == Fill \/ KsaStep \/ KsaEnd \/ XStep \/ XEnd

SpecSteps == InitSteps /\ [][NextSteps]_vars

IsPerm(S) == {S[n] : n \in 0..255} = 0..255

\* C9 as stated: after init(k) and after every step of the key-scheduling
\* loop and of apply, S is a permutation of 0..255 and both cursors of the
\* cipher state, i and j, lie in 0..255.
CtxInvariantAsStated ==
    cpc \in {"ksa", "x", "done"} =>
        IsPerm(ctx.S) /\ ctx.i \in 0..255 /\ ctx.j \in 0..255

\* C9, amended: after the fill loop of init, at every step of the
\* key-scheduling loop and of apply, S is a permutation of 0..255; the
\* cursors of the cipher state lie in 0..255 once init has written them
\* (on its return, and after every step of apply).  During the
\* key-scheduling loop the loop's own j lies in 0..255 and its i in 0..256.
CtxInvariant ==
    /\ cpc \in {"ksa", "x", "done"} => IsPerm(ctx.S)
    /\ cpc = "ksa" => lv.j \in 0..255 /\ lv.i \in 0..256
    /\ cpc \in {"x", "done"} => ctx.i \in 0..255 /\ ctx.j \in 0..255

\* apply has run over a whole buffer of at least two bytes and moved S
CtxAfterApply ==
    /\ cpc = "done" /\ Len(buf) >= 2 /\ ctx.i = Len(buf)
    /\ ctx.S # IdentityS /\ IsPerm(ctx.S)

\* the stepwise run computes what _rc4i and _rc4x compute
StepsAgree ==
    cpc = "done" => ctx = Cipher(ctx, key, orig).c /\ buf = Cipher(ctx, key, orig).d

(***************************************************************************)
(* The string vault on its own: decodes in any order (SpecVault)           *)
(***************************************************************************)
MaxCalls == 2

\* getpid(): one value whose square fits an int and one whose does not
Pids == {1000, 46341}

NoCipher == key = <<>> /\ buf = <<>> /\ orig = <<>> /\ cpc = "idle" /\ lv = NoLocals

Vault ==
    [rk |-> _rk, ready |-> _key_ready, ctx |-> ctx, ks |-> image.ks, st |-> image.st]

InitVault ==
    /\ NoCipher
    /\ sentinel \in Pids
    /\ image = [ks |-> _ks, st |-> _st]
    /\ _rk = [n \in 1..KS_LEN |-> 0]
    /\ _key_ready = 0
    /\ ctx \in StackCtx
    /\ decodes = <<>>
    /\ NoThreads
    /\ NoStatus
    /\ NoMain

\* a call _ds(off, len) of some directory entry
Decode ==
    /\ Len(decodes) < MaxCalls
    /\ \E e \in Directory, ok \in BOOLEAN :
         \E r \in {_ds(Vault, sentinel, e[1], e[2], ok)} :
             /\ image' = [ks |-> r.V.ks, st |-> r.V.st]
             /\ _rk' = r.V.rk
             /\ _key_ready' = r.V.ready
             /\ ctx' = r.V.ctx
             /\ decodes' = Append(decodes, [off |-> e[1], len |-> e[2], out |-> r.out])
    /\ UNCHANGED <<proc_status, cvars, threads, sentinel, mvars>>

\* a call _recover_key()
RecoverKey ==
    /\ \E V1 \in {_recover_key(Vault, sentinel)} :
           /\ image' = [ks |-> V1.ks, st |-> V1.st]
           /\ _rk' = V1.rk
           /\ _key_ready' = V1.ready
    /\ UNCHANGED <<proc_status, cvars, threads, sentinel, ctx, decodes, mvars>>

NextVault == Decode \/ RecoverKey

SpecVault == InitVault /\ [][NextVault]_vars

\* what _ds(off, len) returns as the first call of a process, computed once
FreshTable ==
    [p \in Pids |-> [e \in Directory |->
        _ds([rk |-> [n \in 1..KS_LEN |-> 0], ready |-> 0,
             ctx |-> CHOOSE c \in StackCtx : TRUE, ks |-> _ks, st |-> _st],
            p, e[1], e[2], TRUE).out]]

\* C10: decode is deterministic and order-independent: every successful
\* decode of an entry returns the same plaintext as every other decode of
\* that entry in the run, and the plaintext a first call of a process would
\* return, whatever calls came before it (no cipher state is carried over).
DecodeDeterministic ==
    \A n \in 1..Len(decodes) :
        decodes[n].out # NULL =>
            /\ decodes[n].out = FreshTable[sentinel][<<decodes[n].off, decodes[n].len>>]
            /\ \A m \in 1..Len(decodes) :
                  (decodes[m].off = decodes[n].off /\ decodes[m].len = decodes[n].len
                   /\ decodes[m].out # NULL) => decodes[m].out = decodes[n].out

\* an entry has been decoded twice, and another entry before one of them
DecodedTwice ==
    /\ Len(decodes) = 2
    /\ decodes[1].off = decodes[2].off
    /\ decodes[1].out # NULL /\ decodes[2].out # NULL
    /\ decodes[1].out = decodes[2].out

(***************************************************************************)
(* libc string functions, on byte strings                                  *)
(***************************************************************************)
\* strstr(h, n) != NULL
StrStr(h, n) ==
    \E a \in 0..(Len(h) - Len(n)) : SubSeq(h, a + 1, a + Len(n)) = n

\* strchr(h, c): the index of the first c in h, 0 for NULL
StrChr(h, c) ==
    LET I == {a \in 1..Len(h) : h[a] = c}
    IN  IF I = {} THEN 0 ELSE CHOOSE a \in I : \A b \in I : a <= b

\* the first index >= a of h whose byte is not in B (Len(h) + 1: the NUL)
RECURSIVE Skip(_, _, _)
Skip(h, a, B) == IF a <= Len(h) /\ h[a] \in B THEN Skip(h, a + 1, B) ELSE a

\* the value of the run of decimal digits of h from index a on, after acc
RECURSIVE Digits(_, _, _)
Digits(h, a, acc) ==
    IF a <= Len(h) /\ h[a] \in 48..57
    THEN Digits(h, a + 1, 10 * acc + (h[a] - 48))
    ELSE acc

\* atoi of the string that starts at index a of h: white space, a sign,
\* digits
Atoi(h, a) ==
    LET b == Skip(h, a, {32, 9, 10, 11, 12, 13})
    IN  IF b <= Len(h) /\ h[b] = 45 THEN 0 - Digits(h, b + 1, 0)
        ELSE IF b <= Len(h) /\ h[b] = 43 THEN Digits(h, b + 1, 0)
        ELSE Digits(h, b, 0)

(***************************************************************************)
(* The helpers of main.  Each takes what the system answers as parameters  *)
(* and returns its return value (ret), the vault after it (V), the _ds     *)
(* calls it made (decs) and the system calls it made (sys).                *)
(***************************************************************************)
Sys(c, a, r) == [call |-> c, args |-> a, res |-> r]
Dec(e, r) == [off |-> e[1], len |-> e[2], out |-> r.out]

\* _ad_ptrace; r: what ptrace(PTRACE_TRACEME) returns
_ad_ptrace(r) ==
    IF r = -1
    THEN [ret |-> 1, sys |-> <<Sys("ptrace_traceme", <<>>, r)>>]
    ELSE [ret |-> 0, sys |-> <<Sys("ptrace_traceme", <<>>, r),
                               Sys("ptrace_detach", <<>>, 0)>>]

\* _ad_timing; t1, t2: what the two gettimeofday calls store
_ad_timing(t1, t2) ==
    LET elapsed == (t2.sec - t1.sec) * 1000000 + (t2.usec - t1.usec)
    IN  IF elapsed > 500000 THEN 1 ELSE 0

\* the loop of _ad_proc over the lines fgets returns: the first line that
\* holds the needle decides
\* a plausible slip: the loop has no break, so any line that has the needle
\* and a non-zero value sets traced
Traced_any(file, needle) ==
    IF \E n \in 1..Len(file) :
           /\ StrStr(file[n], needle)
           /\ StrChr(file[n], 58) # 0
           /\ Atoi(file[n], Skip(file[n], StrChr(file[n], 58) + 1, {32, 9})) # 0
    THEN 1 ELSE 0

\* the fgets loop of _ad_proc (lines 214-230): the value of traced after it
Traced(file, needle) ==
    LET I == {n \in 1..Len(file) : StrStr(file[n], needle)}
    IN  IF I = {} THEN 0
        ELSE LET line == file[CHOOSE n \in I : \A m \in I : n <= m]
                 p == StrChr(line, 58)
             IN  IF p = 0 THEN 0
                 ELSE IF Atoi(line, Skip(line, p + 1, {32, 9})) # 0 THEN 1
                 ELSE 0

\* _ad_proc; ok1, ok2: the mallocs of the two _ds calls succeed; fo: fopen
\* succeeds; file: the lines of the status file (each shorter than 256)
_ad_proc(V, pid, ok1, ok2, fo, file) ==
    Bind(_ds(V, pid, S_PROC_STATUS[1], S_PROC_STATUS[2], ok1), LAMBDA path :
    Bind(_ds(path.V, pid, S_TRACER[1], S_TRACER[2], ok2), LAMBDA needle :
    LET decs == <<Dec(S_PROC_STATUS, path), Dec(S_TRACER, needle)>>
    IN  IF path.out = NULL \/ needle.out = NULL
        THEN [ret |-> 0, V |-> needle.V, decs |-> decs, sys |-> <<>>]
        ELSE IF ~fo
        THEN [ret |-> 0, V |-> needle.V, decs |-> decs,
              sys |-> <<Sys("fopen", <<path.out>>, 0)>>]
        ELSE [ret |-> Traced(file, needle.out), V |-> needle.V, decs |-> decs,
              sys |-> <<Sys("fopen", <<path.out>>, 1), Sys("fclose", <<>>, 0)>>]))

\* a plausible slip: the flag is flipped, not set
_self_modify_toggle(flag, m) == IF m = 0 THEN 1 - flag ELSE flag

\* a plausible slip: the flag is written whether or not mprotect succeeded
_self_modify_always(flag, m) == 1

\* _self_modify; m: what the first mprotect returns.  The new _sm_flag
_self_modify(flag, m) == IF m = 0 THEN 1 ELSE flag

\* a plausible slip: the check is taken to be patched to return 1 (the
\* comment of line 267), whatever _sm_flag holds
_sm_check_patched(flag) == 1

\* _sm_check
_sm_check(flag) == flag

\* a plausible slip: + for *, and the test is never true
_opaque_true_sum(x) == ~Odd32(Add32(W32(x), Add32(W32(x), W32(1))))

\* _opaque_true(x): (x * (x + 1)) % 2 == 0, the int product wrapping
_opaque_true(x) == ~Odd32(Mul32(W32(x), Add32(W32(x), W32(1))))

\* a plausible slip: the + 1 is left out, and the test is always true
_opaque_false_even(x) == ~Odd32(Add32(Mul32(W32(x), W32(x)), W32(x)))

\* _opaque_false(x): (x * x + x + 1) % 2 == 0
_opaque_false(x) ==
    ~Odd32(Add32(Add32(Mul32(W32(x), W32(x)), W32(x)), W32(1)))

\* _check_os; un: what uname returns; sysname: buf.sysname
_check_os(V, pid, un, sysname, ok) ==
    IF un # 0
    THEN [ret |-> 0, V |-> V, decs |-> <<>>, sys |-> <<Sys("uname", <<>>, un)>>]
    ELSE Bind(_ds(V, pid, S_LINUX[1], S_LINUX[2], ok), LAMBDA target :
             [ret |-> IF target.out = NULL THEN 0
                      ELSE IF sysname = target.out THEN 1 ELSE 0,
              V |-> target.V, decs |-> <<Dec(S_LINUX, target)>>,
              sys |-> <<Sys("uname", <<>>, un)>>])

\* _check_marker; st: what stat returns
_check_marker(V, pid, ok, st) ==
    Bind(_ds(V, pid, S_MARKER[1], S_MARKER[2], ok), LAMBDA marker :
        IF marker.out = NULL
        THEN [ret |-> 0, V |-> marker.V, decs |-> <<Dec(S_MARKER, marker)>>,
              sys |-> <<>>]
        ELSE [ret |-> IF st = 0 THEN 1 ELSE 0, V |-> marker.V,
              decs |-> <<Dec(S_MARKER, marker)>>,
              sys |-> <<Sys("stat", <<marker.out>>, st)>>])

\* _hide_proc; fd: what openat returns; w: what write returns
_hide_proc(V, pid, ok, fd, w) ==
    Bind(_ds(V, pid, S_PROC_MEM[1], S_PROC_MEM[2], ok), LAMBDA pm :
    LET decs == <<Dec(S_PROC_MEM, pm)>>
    IN  IF pm.out = NULL THEN [V |-> pm.V, decs |-> decs, sys |-> <<>>]
        ELSE IF fd < 0
        THEN [V |-> pm.V, decs |-> decs,
              sys |-> <<Sys("openat", <<pm.out>>, fd)>>]
        ELSE [V |-> pm.V, decs |-> decs,
              sys |-> <<Sys("openat", <<pm.out>>, fd), Sys("write", <<>>, w),
                        Sys("close", <<>>, 0)>>])

\* WIFEXITED(status) && WEXITSTATUS(status) == 0
ExitedZero(status) == (status % 128 = 0) /\ ((status \div 256) % 256 = 0)

\* a plausible slip: the exit status is not looked at, only the fork
SpawnRet_nostatus(fpid, status) == IF fpid < 0 THEN -1 ELSE 0

\* the return value of _download and of _exec_payload once the strings are
\* decoded; fpid: what fork returns in the parent; status: what waitpid stores
SpawnRet(fpid, status) ==
    IF fpid < 0 THEN -1 ELSE IF ExitedZero(status) THEN 0 ELSE -1

\* the system calls of a fork, the child's exec of argv, and the wait
SpawnSys(fn, argv, fpid, status) ==
    IF fpid < 0 THEN <<Sys("fork", <<>>, fpid)>>
    ELSE <<Sys("fork", <<>>, fpid), Sys(fn, argv, 0), Sys("waitpid", <<>>, status)>>

\* _download; oks: which of the five mallocs succeed
_download(V, pid, oks, fpid, status) ==
    Bind(_ds(V, pid, S_CURL[1], S_CURL[2], oks[1]), LAMBDA curl_bin :
    Bind(_ds(curl_bin.V, pid, S_C2_URL[1], S_C2_URL[2], oks[2]), LAMBDA c2_url :
    Bind(_ds(c2_url.V, pid, S_DASH_O[1], S_DASH_O[2], oks[3]), LAMBDA dash_o :
    Bind(_ds(dash_o.V, pid, S_PAYLOAD_PATH[1], S_PAYLOAD_PATH[2], oks[4]), LAMBDA out_path :
    Bind(_ds(out_path.V, pid, S_DEV_NULL[1], S_DEV_NULL[2], oks[5]), LAMBDA dev_null :
    LET decs == <<Dec(S_CURL, curl_bin), Dec(S_C2_URL, c2_url), Dec(S_DASH_O, dash_o),
                  Dec(S_PAYLOAD_PATH, out_path), Dec(S_DEV_NULL, dev_null)>>
    IN  IF NULL \in {curl_bin.out, c2_url.out, dash_o.out, out_path.out, dev_null.out}
        THEN [ret |-> -1, V |-> dev_null.V, decs |-> decs, sys |-> <<>>]
        ELSE [ret |-> SpawnRet(fpid, status), V |-> dev_null.V, decs |-> decs,
              sys |-> SpawnSys("execlp",
                               <<curl_bin.out, curl_bin.out, c2_url.out,
                                 dash_o.out, out_path.out>>, fpid, status)])))))

\* _exec_payload; oks: which of the three mallocs succeed
_exec_payload(V, pid, oks, fpid, status) ==
    Bind(_ds(V, pid, S_BIN_SH[1], S_BIN_SH[2], oks[1]), LAMBDA sh :
    Bind(_ds(sh.V, pid, S_DASH_C[1], S_DASH_C[2], oks[2]), LAMBDA dash_c :
    Bind(_ds(dash_c.V, pid, S_EXEC_CMD[1], S_EXEC_CMD[2], oks[3]), LAMBDA cmd :
    LET decs == <<Dec(S_BIN_SH, sh), Dec(S_DASH_C, dash_c), Dec(S_EXEC_CMD, cmd)>>
    IN  IF NULL \in {sh.out, dash_c.out, cmd.out}
        THEN [ret |-> -1, V |-> cmd.V, decs |-> decs, sys |-> <<>>]
        ELSE [ret |-> SpawnRet(fpid, status), V |-> cmd.V, decs |-> decs,
              sys |-> SpawnSys("execl", <<sh.out, sh.out, dash_c.out, cmd.out>>,
                               fpid, status)])))

(***************************************************************************)
(* What the system may answer                                              *)
(***************************************************************************)
MaxLines == 2

Str_Linux  == <<76, 105, 110, 117, 120>>
Str_Darwin == <<68, 97, 114, 119, 105, 110>>

\* lines of /proc/self/status as fgets returns them:
\* "Name:\tlevel13\n", "TracerPid:\t0\n", "TracerPid:\t4242\n",
\* "TracerPid\n", "NoTracerPid:\t7\n"
StatusLines ==
    { <<78, 97, 109, 101, 58, 9, 108, 101, 118, 101, 108, 49, 51, 10>>,
      <<84, 114, 97, 99, 101, 114, 80, 105, 100, 58, 9, 48, 10>>,
      <<84, 114, 97, 99, 101, 114, 80, 105, 100, 58, 9, 52, 50, 52, 50, 10>>,
      <<84, 114, 97, 99, 101, 114, 80, 105, 100, 10>>,
      <<78, 111, 84, 114, 97, 99, 101, 114, 80, 105, 100, 58, 9, 55, 10>> }
StatusFiles == SeqsUpTo(StatusLines, MaxLines)

\* pairs of times (t1, t2): 12 us, 500000 us, 500001 us, 2 s, and a clock
\* that went back
TimePairs ==
    { <<[sec |-> 100, usec |-> 600000], [sec |-> a, usec |-> b]>> :
        <<a, b>> \in { <<100, 600012>>, <<101, 100000>>, <<101, 100001>>,
                       <<102, 600000>>, <<99, 0>> } }

\* which mallocs of n succeed: all, all but one, none
MallocPatterns(n) ==
    {[k \in 1..n |-> TRUE], [k \in 1..n |-> FALSE]}
        \cup {[k \in 1..n |-> k # f] : f \in 1..n}

\* wait statuses: exit 0, exit 1, exit 127 (exec failed), killed by signal 9
WaitStatuses == {0, 256, 32512, 9}
\* fork in the parent: the child's pid, or -1
ForkResults == {4242, -1}

(***************************************************************************)
(* main: the flattened dispatcher, one action per case of the switch       *)
(***************************************************************************)
ST_INIT         == 31292
ST_ANTI_DEBUG_1 == 8066
ST_ANTI_DEBUG_2 == 19889
ST_ANTI_DEBUG_3 == 25321
ST_SELF_MODIFY  == 13743
ST_CHECK_OS     == 22724
ST_CHECK_MARKER == 3351
ST_HIDE_PROC    == 37822
ST_DOWNLOAD     == 42016
ST_EXEC         == 46582
ST_EXIT_OK      == 52428
ST_EXIT_FAIL    == 56797

Init ==
    /\ NoCipher
    /\ sentinel \in Pids
    /\ image = [ks |-> _ks, st |-> _st]
    /\ _rk = [n \in 1..KS_LEN |-> 0]
    /\ _key_ready = 0
    /\ ctx \in StackCtx
    /\ decodes = <<>>
    /\ NoThreads
    /\ NoStatus
    /\ state = ST_INIT
    /\ retval = 1
    /\ _sm_flag = 0
    /\ exited = FALSE
    /\ exit_code = -1
    /\ calls = <<>>
    /\ sys = <<>>
    /\ trace = <<>>

\* the switch takes the case of token s
Case(s) == ~exited /\ state = s /\ trace' = Append(trace, s)

Call(f, r) == [fn |-> f, ret |-> r]

\* the vault and the histories after a helper that returned r
After(f, r) ==
    /\ image' = [ks |-> r.V.ks, st |-> r.V.st]
    /\ _rk' = r.V.rk
    /\ _key_ready' = r.V.ready
    /\ ctx' = r.V.ctx
    /\ decodes' = decodes \o r.decs
    /\ sys' = sys \o r.sys
    /\ calls' = Append(calls, Call(f, r.ret))

\* if (c) state = a; else state = b;
Branch(c, a, b) == IF c THEN a ELSE b

\* a plausible slip: the result of the probe is not looked at
Guard_ignored(r, next) == next

\* if (probe()) state = ST_EXIT_FAIL; else state = next;
Guard(r, next) == Branch(r # 0, ST_EXIT_FAIL, next)

\* a plausible slip: > for !=, with a failure that is reported as -1
DownloadFailed_positive(r) == r > 0

\* _download() != 0
DownloadFailed(r) == r # 0

Case_INIT ==
    /\ Case(ST_INIT)
    /\ state' = Branch(_opaque_true(sentinel), ST_ANTI_DEBUG_1, ST_EXIT_FAIL)
    /\ UNCHANGED <<proc_status, cvars, threads, sentinel, image, _rk, _key_ready, ctx, decodes, retval,
                   _sm_flag, exited, exit_code, calls, sys>>

Case_ANTI_DEBUG_1 ==
    /\ Case(ST_ANTI_DEBUG_1)
    /\ \E r \in {0, -1} :
         \E g \in {_ad_ptrace(r)} :
             /\ calls' = Append(calls, Call("_ad_ptrace", g.ret))
             /\ sys' = sys \o g.sys
             /\ state' = Guard(g.ret, XorBits(ST_ANTI_DEBUG_2, 0, 16) + 0)
    /\ UNCHANGED <<proc_status, cvars, threads, sentinel, image, _rk, _key_ready, ctx, decodes, retval,
                   _sm_flag, exited, exit_code>>

Case_ANTI_DEBUG_2 ==
    /\ Case(ST_ANTI_DEBUG_2)
    /\ \E t \in TimePairs :
         \E g \in {_ad_timing(t[1], t[2])} :
             /\ calls' = Append(calls, Call("_ad_timing", g))
             /\ sys' = sys \o <<Sys("gettimeofday", <<>>, 0),
                                Sys("gettimeofday", <<>>, 0)>>
             /\ state' = Guard(g, ST_ANTI_DEBUG_3)
    /\ UNCHANGED <<proc_status, cvars, threads, sentinel, image, _rk, _key_ready, ctx, decodes, retval,
                   _sm_flag, exited, exit_code>>

Case_ANTI_DEBUG_3 ==
    /\ Case(ST_ANTI_DEBUG_3)
    /\ \E oks \in MallocPatterns(2), fo \in BOOLEAN, file \in StatusFiles :
         \E g \in {_ad_proc(Vault, sentinel, oks[1], oks[2], fo, file)} :
             /\ After("_ad_proc", g)
             /\ state' = Guard(g.ret, ST_SELF_MODIFY)
    /\ UNCHANGED <<proc_status, cvars, threads, sentinel, retval, _sm_flag, exited, exit_code>>

Case_SELF_MODIFY ==
    /\ Case(ST_SELF_MODIFY)
    /\ \E m \in {0, -1} :
         LET flag == _self_modify(_sm_flag, m)
         IN  /\ _sm_flag' = flag
             /\ sys' = sys \o (IF m = 0
                               THEN <<Sys("mprotect", <<>>, m), Sys("mprotect", <<>>, 0)>>
                               ELSE <<Sys("mprotect", <<>>, m)>>)
             /\ calls' = calls \o <<Call("_self_modify", 0),
                                    Call("_sm_check", _sm_check(flag))>>
             /\ state' = Branch(_sm_check(flag) # 0, ST_CHECK_OS, ST_EXIT_FAIL)
    /\ UNCHANGED <<proc_status, cvars, threads, sentinel, image, _rk, _key_ready, ctx, decodes, retval,
                   exited, exit_code>>

Case_CHECK_OS ==
    /\ Case(ST_CHECK_OS)
    /\ \E un \in {0, -1}, sysname \in {Str_Linux, Str_Darwin}, ok \in BOOLEAN :
         \E g \in {_check_os(Vault, sentinel, un, sysname, ok)} :
             /\ After("_check_os", g)
             /\ state' = Branch(g.ret = 0, ST_EXIT_FAIL,
                                Branch(_opaque_false(sentinel), ST_INIT,
                                       ST_CHECK_MARKER))
    /\ UNCHANGED <<proc_status, cvars, threads, sentinel, retval, _sm_flag, exited, exit_code>>

Case_CHECK_MARKER ==
    /\ Case(ST_CHECK_MARKER)
    /\ \E ok \in BOOLEAN, st \in {0, -1} :
         \E g \in {_check_marker(Vault, sentinel, ok, st)} :
             /\ After("_check_marker", g)
             /\ state' = Guard(g.ret, ST_HIDE_PROC)
    /\ UNCHANGED <<proc_status, cvars, threads, sentinel, retval, _sm_flag, exited, exit_code>>

\* a plausible slip: a concealment step that did not get to its write, or
\* whose write failed, is taken for a failed check
HideNext_fatal(g) ==
    IF \E n \in 1..Len(g.sys) : g.sys[n].call = "write" /\ g.sys[n].res >= 0
    THEN ST_DOWNLOAD ELSE ST_EXIT_FAIL

\* _hide_proc(); state = ST_DOWNLOAD; whatever g the call did
HideNext(g) == ST_DOWNLOAD

Case_HIDE_PROC ==
    /\ Case(ST_HIDE_PROC)
    /\ \E ok \in BOOLEAN, fd \in {3, -1}, w \in {512, -1} :
         \E g \in {_hide_proc(Vault, sentinel, ok, fd, w)} :
             /\ After("_hide_proc", [g EXCEPT !.V = g.V] @@ [ret |-> 0])
             /\ state' = HideNext(g)
    /\ UNCHANGED <<proc_status, cvars, threads, sentinel, retval, _sm_flag, exited, exit_code>>

Case_DOWNLOAD ==
    /\ Case(ST_DOWNLOAD)
    /\ \E oks \in MallocPatterns(5), fpid \in ForkResults, status \in WaitStatuses :
         \E g \in {_download(Vault, sentinel, oks, fpid, status)} :
             /\ After("_download", g)
             /\ state' = Branch(DownloadFailed(g.ret), ST_EXIT_FAIL, ST_EXEC)
    /\ UNCHANGED <<proc_status, cvars, threads, sentinel, retval, _sm_flag, exited, exit_code>>

\* a plausible slip: retval is cleared whatever _exec_payload returned
ExecRetval_always(old, r) == 0

\* if (_exec_payload() == 0) retval = 0;
ExecRetval(old, r) == IF r = 0 THEN 0 ELSE old

Case_EXEC ==
    /\ Case(ST_EXEC)
    /\ \E oks \in MallocPatterns(3), fpid \in ForkResults, status \in WaitStatuses :
         \E g \in {_exec_payload(Vault, sentinel, oks, fpid, status)} :
             /\ After("_exec_payload", g)
             /\ retval' = ExecRetval(retval, g.ret)
    /\ state' = ST_EXIT_OK
    /\ UNCHANGED <<proc_status, cvars, threads, sentinel, _sm_flag, exited, exit_code>>

\* case ST_EXIT_OK: return retval;
Case_EXIT_OK ==
    /\ Case(ST_EXIT_OK)
    /\ exited' = TRUE
    /\ exit_code' = retval
    /\ UNCHANGED <<proc_status, cvars, threads, sentinel, image, _rk, _key_ready, ctx, decodes, state, retval,
                   _sm_flag, calls, sys>>

\* case ST_EXIT_FAIL: return 1;
Case_EXIT_FAIL ==
    /\ Case(ST_EXIT_FAIL)
    /\ exited' = TRUE
    /\ exit_code' = 1
    /\ UNCHANGED <<proc_status, cvars, threads, sentinel, image, _rk, _key_ready, ctx, decodes, state, retval,
                   _sm_flag, calls, sys>>

\* (the default case needs a token outside the enum: no case assigns one)
Next ==
    \/ Case_INIT \/ Case_ANTI_DEBUG_1 \/ Case_ANTI_DEBUG_2 \/ Case_ANTI_DEBUG_3
    \/ Case_SELF_MODIFY \/ Case_CHECK_OS \/ Case_CHECK_MARKER \/ Case_HIDE_PROC
    \/ Case_DOWNLOAD \/ Case_EXEC \/ Case_EXIT_OK \/ Case_EXIT_FAIL

\* main is one thread running a loop without suspension points: as long as
\* every call returns, the next case is taken
Spec == Init /\ [][Next]_vars /\ WF_vars(Next)

(***************************************************************************)
(* Properties of the dispatcher, read off the histories                    *)
(***************************************************************************)
\* the values helper f has returned so far, and the positions of its calls
At(f) == {n \in 1..Len(calls) : calls[n].fn = f}
Rets(f) == {calls[n].ret : n \in At(f)}
Called(f) == At(f) # {}

\* the child that ran exec function fn was waited for and exited with 0
SpawnSucceeded(fn) ==
    \E n \in 1..(Len(sys) - 1) :
        /\ sys[n].call = fn
        /\ sys[n + 1].call = "waitpid"
        /\ ExitedZero(sys[n + 1].res)

\* main has returned c
Returned(c) == exited /\ exit_code = c

\* one of the three probes has answered "detected"
Detected == \E f \in {"_ad_ptrace", "_ad_timing", "_ad_proc"} : Rets(f) \ {0} # {}

AbortedBefore(F) ==
    /\ state = ST_EXIT_FAIL
    /\ \A f \in F : ~Called(f)
    /\ exited => exit_code = 1

\* C1: once a probe (_ad_ptrace, _ad_timing, _ad_proc) has returned
\* non-zero, the dispatcher is in ST_EXIT_FAIL, main returns 1, and
\* _download and _exec_payload are never called
DispatcherAbort ==
    /\ [](Detected => AbortedBefore({"_download", "_exec_payload"}))
    /\ (Detected ~> Returned(1))

\* a run that /proc/self/status stopped: the first two probes were clear
ProcProbeAborted ==
    /\ Returned(1)
    /\ Rets("_ad_ptrace") = {0} /\ Rets("_ad_timing") = {0}
    /\ Rets("_ad_proc") = {1}

\* every condition of a full success: probes clear, _sm_check non-zero,
\* _check_os non-zero, _check_marker zero, the downloader and the payload
\* shell both exited with status 0
FullSuccess ==
    /\ Rets("_ad_ptrace") = {0} /\ Rets("_ad_timing") = {0}
    /\ Rets("_ad_proc") = {0}
    /\ Called("_sm_check") /\ 0 \notin Rets("_sm_check")
    /\ Called("_check_os") /\ 0 \notin Rets("_check_os")
    /\ Rets("_check_marker") = {0}
    /\ Rets("_download") = {0} /\ SpawnSucceeded("execlp")
    /\ Rets("_exec_payload") = {0} /\ SpawnSucceeded("execl")

\* C2: main returns 0 exactly in the runs of full success, 1 in every other
\* run, and nothing else
ExitCodeContract ==
    exited => /\ exit_code \in {0, 1}
              /\ exit_code = 0 <=> FullSuccess

FullSuccessReturned == Returned(0) /\ FullSuccess

\* C3: _exec_payload is called only after _download has returned 0 (its
\* child exited with 0); after a _download that failed main returns 1
\* without calling _exec_payload; each is called at most once
FetchGatesExecute ==
    /\ [](/\ Cardinality(At("_download")) <= 1
          /\ Cardinality(At("_exec_payload")) <= 1
          /\ Called("_exec_payload") =>
                /\ Rets("_download") = {0}
                /\ SpawnSucceeded("execlp")
                /\ \A e \in At("_exec_payload") : \E d \in At("_download") : d < e
          /\ (Called("_download") /\ ~SpawnSucceeded("execlp")) =>
                AbortedBefore({"_exec_payload"}))
    /\ ((Called("_download") /\ ~SpawnSucceeded("execlp")) ~> Returned(1))

\* the downloader was started and exited with a status other than 0
FetchFailedReturned ==
    /\ Returned(1)
    /\ \E n \in 1..(Len(sys) - 1) :
          sys[n].call = "execlp" /\ ~ExitedZero(sys[n + 1].res)

\* C4: once _check_marker has returned non-zero, the dispatcher is in
\* ST_EXIT_FAIL, main returns 1, and _hide_proc, _download and _exec_payload
\* are never called
SkipIfMarker ==
    /\ [](0 \notin Rets("_check_marker") /\ Called("_check_marker")
            => AbortedBefore({"_hide_proc", "_download", "_exec_payload"}))
    /\ (Called("_check_marker") /\ 0 \notin Rets("_check_marker") ~> Returned(1))

\* stat found the marker file and main returned
MarkerFoundReturned ==
    /\ Returned(1)
    /\ Rets("_check_marker") = {1}
    /\ \E n \in 1..Len(sys) : sys[n].call = "stat" /\ sys[n].res = 0

\* C5: once _download has returned 0 the dispatcher goes through ST_EXEC to
\* ST_EXIT_OK, never to ST_EXIT_FAIL; main then returns 0 if the payload
\* shell exited with 0 and 1 otherwise; retval is assigned in ST_EXEC only
ExitOkAfterFetch ==
    /\ [](Rets("_download") = {0} =>
            /\ state \in {ST_EXEC, ST_EXIT_OK}
            /\ exited => /\ trace[Len(trace)] = ST_EXIT_OK
                         /\ exit_code = IF SpawnSucceeded("execl") THEN 0 ELSE 1)
    /\ (Rets("_download") = {0} ~> exited)
    /\ [][retval' # retval => state = ST_EXEC]_vars

\* the payload failed and main still left through ST_EXIT_OK
ExitOkWithFailure ==
    /\ Returned(1)
    /\ Rets("_download") = {0}
    /\ Rets("_exec_payload") = {-1}
    /\ trace[Len(trace)] = ST_EXIT_OK

\* the first mprotect of _self_modify failed
ElevationFailed ==
    \E n \in 1..Len(sys) : sys[n].call = "mprotect" /\ sys[n].res # 0

\* C6: when the mprotect of _self_modify fails, _sm_flag stays 0, _sm_check
\* returns 0, and the dispatcher goes from ST_SELF_MODIFY to ST_EXIT_FAIL:
\* _sm_check is the last helper called and main returns 1
SelfVerifyAbort ==
    /\ [](ElevationFailed =>
            /\ _sm_flag = 0
            /\ Rets("_sm_check") = {0}
            /\ calls[Len(calls)].fn = "_sm_check"
            /\ AbortedBefore({"_check_os", "_check_marker", "_hide_proc",
                              "_download", "_exec_payload"}))
    /\ (ElevationFailed ~> Returned(1))

ElevationFailedReturned ==
    /\ Returned(1)
    /\ ElevationFailed
    /\ trace[Len(trace) - 1] = ST_SELF_MODIFY

\* C7: a run in which some _ds call returned NULL ends with main returning 1
\* (the code lets such runs return 0: _ad_proc, _check_marker and _hide_proc
\* answer a failed decode with "nothing found")
ResourceErrorFatal ==
    (exited /\ \E n \in 1..Len(decodes) : decodes[n].out = NULL) => exit_code = 1

(***************************************************************************)
(* Properties of key recovery and of the tables                            *)
(***************************************************************************)
\* C11: key recovery is idempotent: once _recover_key has run (directly or
\* inside _ds), _rk is _ks[i] ^ KS_MASK for every i and no later call
\* changes it; _key_ready goes from 0 to 1 once and never back; before the
\* first call _rk is untouched; the 0xFF branch never writes the key
KeyRecoveryIdempotent ==
    /\ [](/\ _key_ready \in {0, 1}
          /\ _key_ready = 0 => _rk = [n \in 1..KS_LEN |-> 0]
          /\ _key_ready = 1 => _rk = [n \in 1..KS_LEN |-> Xor8(_ks[n], KS_MASK)]
          /\ _rk # Unmask(255))
    /\ [][_key_ready = 1 => (_key_ready' = 1 /\ _rk' = _rk)]_vars

\* the recovery step has run at least twice (once in each of two decodes)
RecoveredAgain ==
    /\ Len(decodes) = 2
    /\ _key_ready = 1
    /\ _rk = SampleKey

(***************************************************************************)
(* _self_modify and _sm_check called any number of times, in any order     *)
(***************************************************************************)
MaxFlagCalls == 4

\* the system calls of _self_modify; m: what the first mprotect returns
MprotectSys(m) ==
    IF m = 0 THEN <<Sys("mprotect", <<>>, m), Sys("mprotect", <<>>, 0)>>
    ELSE <<Sys("mprotect", <<>>, m)>>

\* a call _self_modify()
SelfModify ==
    /\ Len(calls) < MaxFlagCalls
    /\ \E m \in {0, -1} :
         /\ _sm_flag' = _self_modify(_sm_flag, m)
         /\ sys' = sys \o MprotectSys(m)
    /\ calls' = Append(calls, Call("_self_modify", 0))
    /\ UNCHANGED <<proc_status, cvars, threads, sentinel, image, _rk, _key_ready, ctx, decodes, state, retval,
                   exited, exit_code, trace>>

\* a call _sm_check()
SmCheck ==
    /\ Len(calls) < MaxFlagCalls
    /\ calls' = Append(calls, Call("_sm_check", _sm_check(_sm_flag)))
    /\ UNCHANGED <<proc_status, cvars, threads, sentinel, image, _rk, _key_ready, ctx, decodes, state, retval,
                   _sm_flag, exited, exit_code, sys, trace>>

NextFlag == SelfModify \/ SmCheck

SpecFlag == InitVault /\ [][NextFlag]_vars

\* C12: _sm_flag starts at 0; its only change is from 0 to 1, made by a
\* _self_modify whose mprotect succeeded; once 1 it stays 1 whatever is
\* called, a further _self_modify included; so it changes at most once
FlagMonotonic ==
    /\ _sm_flag = 0
    /\ [](_sm_flag \in {0, 1})
    /\ [][_sm_flag = 1 => _sm_flag' = 1]_vars
    /\ [][_sm_flag' # _sm_flag =>
            /\ _sm_flag = 0 /\ _sm_flag' = 1
            /\ calls' = Append(calls, Call("_self_modify", 0))
            /\ sys' = sys \o MprotectSys(0)]_vars

\* _self_modify has succeeded twice, and _sm_check has seen the flag since
MutatedTwice ==
    /\ _sm_flag = 1
    /\ Len(calls) >= 3
    /\ calls[1] = Call("_self_modify", 0) /\ calls[2] = Call("_self_modify", 0)
    /\ calls[3] = Call("_sm_check", 1)
    /\ sys = MprotectSys(0) \o MprotectSys(0)

(***************************************************************************)
(* _ds called by several threads at once.  The program has one thread; the *)
(* accesses of _recover_key to _rk and _key_ready are plain, so between    *)
(* threads they race, and the order in which one thread's stores reach the *)
(* others is not fixed by the program: the store to _key_ready (line 125)  *)
(* may become visible before, among or after the stores to _rk (line 123). *)
(***************************************************************************)
NThreads == 2

\* the entries the threads decode
RaceEntries == {S_LINUX, S_CURL}

\* the order of the stores: the store to _key_ready after this many of the
\* stores to _rk (KS_LEN: the order of the program)
FlagAfter == {0, 7, KS_LEN}

InitRace ==
    /\ NoCipher
    /\ sentinel \in Pids
    /\ image = [ks |-> _ks, st |-> _st]
    /\ _rk = [n \in 1..KS_LEN |-> 0]
    /\ _key_ready = 0
    /\ ctx \in StackCtx
    /\ decodes = <<>>
    /\ threads = [t \in 1..NThreads |-> [pc |-> "idle"]]
    /\ NoStatus
    /\ NoMain

\* thread t calls _ds(e) and reaches the test of line 115
RaceCall(t) ==
    /\ threads[t].pc = "idle"
    /\ \E e \in RaceEntries :
         threads' = [threads EXCEPT ![t] = [pc |-> "check", e |-> e]]
    /\ UNCHANGED <<proc_status, cvars, sentinel, image, _rk, _key_ready, ctx, decodes, mvars>>

\* if (_key_ready) return; and, past it, the choice of the store order
RaceCheck(t) ==
    /\ threads[t].pc = "check"
    /\ IF _key_ready # 0
       THEN threads' = [threads EXCEPT ![t] = [pc |-> "cipher", e |-> @.e]]
       ELSE \E f \in FlagAfter :
              threads' = [threads EXCEPT ![t] =
                            [pc |-> "store", e |-> @.e, n |-> 0, f |-> f]]
    /\ UNCHANGED <<proc_status, cvars, sentinel, image, _rk, _key_ready, ctx, decodes, mvars>>

\* the next of the KS_LEN + 1 stores of thread t becomes visible
RaceStore(t) ==
    /\ threads[t].pc = "store"
    /\ LET n == threads[t].n
           f == threads[t].f
           byte == IF n < f THEN n + 1 ELSE n
       IN  /\ IF n = f
              THEN _key_ready' = 1 /\ _rk' = _rk
              ELSE /\ _rk' = [_rk EXCEPT ![byte] = Xor8(image.ks[byte], KS_MASK)]
                   /\ _key_ready' = _key_ready
           /\ threads' = [threads EXCEPT ![t] =
                            IF n = KS_LEN THEN [pc |-> "cipher", e |-> @.e]
                            ELSE [@ EXCEPT !.n = n + 1]]
    /\ UNCHANGED <<proc_status, cvars, sentinel, image, ctx, decodes, mvars>>

\* the rest of _ds (lines 134-141) with the key as it is now; the context is
\* the thread's own
RaceCipher(t) ==
    /\ threads[t].pc = "cipher"
    /\ \E ok \in BOOLEAN, c \in StackCtx :
         \E r \in {_ds([Vault EXCEPT !.ready = 1, !.ctx = c], sentinel,
                       threads[t].e[1], threads[t].e[2], ok)} :
             /\ threads' = [threads EXCEPT ![t] =
                              [pc |-> "done", e |-> @.e, out |-> r.out,
                               rk |-> _rk, ready |-> _key_ready]]
             /\ decodes' = Append(decodes, [off |-> threads[t].e[1],
                                            len |-> threads[t].e[2], out |-> r.out])
    /\ UNCHANGED <<proc_status, cvars, sentinel, image, _rk, _key_ready, ctx, mvars>>

NextRace ==
    \E t \in 1..NThreads : RaceCall(t) \/ RaceCheck(t) \/ RaceStore(t) \/ RaceCipher(t)

SpecRace == InitRace /\ [][NextRace]_vars

SysFailed(c) == \E n \in 1..Len(sys) : sys[n].call = c /\ sys[n].res < 0

\* C14: whatever _hide_proc did (its decode failed, openat failed, write
\* failed, or all went well), the case ST_HIDE_PROC leads to ST_DOWNLOAD,
\* and what main returns is decided by the downloader and the payload alone
ConcealmentAdvisory ==
    /\ [][state = ST_HIDE_PROC => state' = ST_DOWNLOAD]_vars
    /\ [](Called("_hide_proc") => state \in {ST_DOWNLOAD, ST_EXEC, ST_EXIT_OK, ST_EXIT_FAIL})
    /\ []((exited /\ Called("_hide_proc")) =>
            exit_code = IF SpawnSucceeded("execlp") /\ SpawnSucceeded("execl")
                        THEN 0 ELSE 1)

\* main returned 0 although openat failed in _hide_proc
ConcealmentFailedReturnedOk ==
    /\ Returned(0)
    /\ SysFailed("openat")

\* _ad_timing has answered "detected"
TimingDetected == Rets("_ad_timing") \ {0} # {}

\* C15, as stated: when _ad_timing returns non-zero nothing else has been or
\* will be evaluated (no other helper called, no system call but the
\* probe's own two gettimeofday), and main returns 1
ScenarioBAsStated ==
    TimingDetected =>
        /\ \A n \in 1..Len(calls) : calls[n].fn = "_ad_timing"
        /\ \A n \in 1..Len(sys) : sys[n].call = "gettimeofday"
        /\ exited => exit_code = 1

\* C15: when _ad_timing returns non-zero, _ad_ptrace has run before it and
\* returned 0 (its ptrace attach and detach are the only other system calls
\* of the run); nothing after the timing probe is evaluated: no decode, no
\* further helper, no further system call; main returns 1
ScenarioB ==
    /\ [](TimingDetected =>
            /\ calls = <<Call("_ad_ptrace", 0), Call("_ad_timing", 1)>>
            /\ sys = <<Sys("ptrace_traceme", <<>>, 0), Sys("ptrace_detach", <<>>, 0),
                       Sys("gettimeofday", <<>>, 0), Sys("gettimeofday", <<>>, 0)>>
            /\ decodes = <<>>
            /\ _key_ready = 0 /\ _sm_flag = 0
            /\ state = ST_EXIT_FAIL
            /\ exited => exit_code = 1)
    /\ (TimingDetected ~> Returned(1))

\* main has returned after a timing probe that took too long
TimingAborted ==
    /\ Returned(1)
    /\ TimingDetected
    /\ trace = <<ST_INIT, ST_ANTI_DEBUG_1, ST_ANTI_DEBUG_2, ST_EXIT_FAIL>>

\* C16: the dispatcher terminates: every run (every call returning) ends
\* with main returning from ST_EXIT_OK or ST_EXIT_FAIL, after at most
\* eleven dispatch cycles; no case is taken twice, so no cycle is reachable
DispatcherTerminates ==
    /\ <>exited
    /\ [](/\ Len(trace) <= 11
          /\ \A m, n \in 1..Len(trace) : trace[m] = trace[n] => m = n
          /\ exited <=> (state \in {ST_EXIT_OK, ST_EXIT_FAIL}
                         /\ Len(trace) > 0 /\ trace[Len(trace)] = state))

\* the longest run: all ten transient cases and ST_EXIT_OK
LongestRun == exited /\ Len(trace) = 11

(***************************************************************************)
(* Properties of the tables                                                *)
(***************************************************************************)
\* C17: after any sequence of _ds and _recover_key calls, failed decodes
\* included, the bytes of _st and of _ks are the compiled-in ones: _ds
\* decrypts a copy of the slice, _recover_key writes _rk only
TablesImmutable == image = [ks |-> _ks, st |-> _st]

\* a decode whose malloc failed and a decode that returned a string
DecodedAndFailed ==
    /\ Len(decodes) = 2
    /\ decodes[1].out = NULL
    /\ decodes[2].out # NULL
    /\ _key_ready = 1

\* C18: every entry (offset, length) of the directory has offset >= 0,
\* length > 0 and offset + length <= sizeof(_st); the slices of two distinct
\* entries do not overlap; so every decode reads len bytes of the table
DirectoryInvariant ==
    /\ Cardinality(Directory) = 13
    /\ \A e \in Directory : e[1] >= 0 /\ e[2] > 0 /\ e[1] + e[2] <= Len(_st)
    /\ \A e, f \in Directory :
          e # f => (e[1] + e[2] <= f[1] \/ f[1] + f[2] <= e[1])
    /\ \A n \in 1..Len(decodes) :
          /\ <<decodes[n].off, decodes[n].len>> \in Directory
          /\ decodes[n].out # NULL => Len(decodes[n].out) = decodes[n].len

\* the first and the last entry of the table have been decoded
DecodedFirstAndLast ==
    /\ Len(decodes) = 2
    /\ decodes[1].off = 0 /\ decodes[1].out # NULL
    /\ decodes[2].off + decodes[2].len = Len(_st) /\ decodes[2].out # NULL

(***************************************************************************)
(* The order behind the flattened dispatcher                               *)
(***************************************************************************)
\* the transient cases in their semantic order
Order ==
    <<ST_INIT, ST_ANTI_DEBUG_1, ST_ANTI_DEBUG_2, ST_ANTI_DEBUG_3, ST_SELF_MODIFY,
      ST_CHECK_OS, ST_CHECK_MARKER, ST_HIDE_PROC, ST_DOWNLOAD, ST_EXEC>>

\* the cases with an abort edge: the probes, the checks and the fetch
Guards == {2, 3, 4, 5, 6, 7, 9}

\* an assignment to state that the order allows
Edge(from, to) ==
    \E k \in 1..Len(Order) :
        /\ from = Order[k]
        /\ \/ k < Len(Order) /\ to = Order[k + 1]
           \/ k \in Guards /\ to = ST_EXIT_FAIL
           \/ k = Len(Order) /\ to = ST_EXIT_OK

\* C19: the cases taken in a run are a prefix of Order followed, once main
\* has returned, by exactly one of ST_EXIT_OK and ST_EXIT_FAIL; no case is
\* taken twice or skipped; ST_EXIT_OK follows ST_EXEC only; a guard leads to
\* ST_EXIT_FAIL or to the next case and to nothing else, and both of these
\* edges can be taken wherever the guard is reached
SemanticOrder ==
    /\ [](\E k \in 0..Len(Order) :
            /\ \A n \in 1..k : trace[n] = Order[n]
            /\ \/ Len(trace) = k /\ ~exited
               \/ /\ Len(trace) = k + 1 /\ exited
                  /\ trace[k + 1] \in {ST_EXIT_OK, ST_EXIT_FAIL}
                  /\ trace[k + 1] = ST_EXIT_OK => k = Len(Order))
    /\ [](\A k \in Guards :
            (state = Order[k] /\ ~exited) =>
                /\ ENABLED (Next /\ state' = ST_EXIT_FAIL)
                /\ ENABLED (Next /\ state' = Order[k + 1]))
    /\ [][state' # state => Edge(state, state')]_vars

\* a run that took every case
WholeOrderTaken ==
    /\ exited
    /\ trace = Order \o <<ST_EXIT_OK>>

(***************************************************************************)
(* The opaque predicates over the 32-bit integers                          *)
(***************************************************************************)
MaxSentinel == 8

\* values of the sentinel: small ones of both signs, the ones around the
\* first overflow of x * x (46341 * 46341 > 2^31 - 1), around 2^16, and the
\* ends of the int range
Sentinels ==
    (-MaxSentinel..MaxSentinel)
        \cup {46340, 46341, -46340, -46341, -46342, 65535, 65536, -65536,
              4194304, 2147483646, 2147483647, -2147483647, -2147483647 - 1}

InitOpaque ==
    /\ NoCipher
    /\ sentinel \in Sentinels
    /\ image = [ks |-> _ks, st |-> _st]
    /\ _rk = [n \in 1..KS_LEN |-> 0]
    /\ _key_ready = 0
    /\ ctx \in StackCtx
    /\ decodes = <<>>
    /\ NoThreads
    /\ NoStatus
    /\ state = ST_INIT
    /\ retval = 1
    /\ _sm_flag = 0
    /\ exited = FALSE
    /\ exit_code = -1
    /\ calls = <<>>
    /\ sys = <<>>
    /\ trace = <<>>

\* the inner test of case ST_CHECK_OS (line 480), taken on its own: the
\* token it would assign is recorded
DecoyCheckOs ==
    /\ ~Called("_opaque_false")
    /\ calls' = Append(calls, Call("_opaque_false",
                   Branch(_opaque_false(sentinel), ST_INIT, ST_CHECK_MARKER)))
    /\ UNCHANGED <<proc_status, cvars, threads, sentinel, image, _rk, _key_ready, ctx, decodes,
                   state, retval, _sm_flag, exited, exit_code, sys, trace>>

NextOpaque == Case_INIT \/ DecoyCheckOs \/ RecoverKey

SpecOpaque == InitOpaque /\ [][NextOpaque]_vars

\* C20: for every sentinel, with 32-bit wrapping arithmetic: case ST_INIT
\* assigns ST_ANTI_DEBUG_1, never ST_EXIT_FAIL; the inner test of case
\* ST_CHECK_OS assigns ST_CHECK_MARKER, never ST_INIT; _recover_key unmasks
\* with KS_MASK, never with 0xFF
DecoysNeverTaken ==
    /\ trace # <<>> => state = ST_ANTI_DEBUG_1
    /\ Rets("_opaque_false") \subseteq {ST_CHECK_MARKER}
    /\ _key_ready # 0 => _rk = [n \in 1..KS_LEN |-> Xor8(_ks[n], KS_MASK)]
    /\ _opaque_true(sentinel) /\ ~_opaque_false(sentinel)
    /\ ~Odd32(Add32(Mul32(W32(sentinel), W32(sentinel)), W32(sentinel)))

\* all three predicates have been evaluated on a sentinel whose square does
\* not fit an int
DecoysEvaluated ==
    /\ sentinel = 2147483647
    /\ trace = <<ST_INIT>>
    /\ Called("_opaque_false")
    /\ _key_ready = 1

(***************************************************************************)
(* _ad_proc taken on its own, on a status file that is fixed at the start  *)
(* and recorded in proc_status.                                            *)
(***************************************************************************)
\* "Name:\tlevel13\n"
Line_Name == <<78, 97, 109, 101, 58, 9, 108, 101, 118, 101, 108, 49, 51, 10>>
\* "TracerPid:\t0\n"
Line_Tracer0 == <<84, 114, 97, 99, 101, 114, 80, 105, 100, 58, 9, 48, 10>>
\* "TracerPid:\t4242\n"
Line_Tracer4242 == <<84, 114, 97, 99, 101, 114, 80, 105, 100, 58, 9, 52, 50, 52, 50, 10>>
\* "TracerPid\n"
Line_TracerBare == <<84, 114, 97, 99, 101, 114, 80, 105, 100, 10>>
\* "NoTracerPid:\t7\n"
Line_NoTracer7 == <<78, 111, 84, 114, 97, 99, 101, 114, 80, 105, 100, 58, 9, 55, 10>>
\* "TracerPid: -1\n"
Line_TracerNeg == <<84, 114, 97, 99, 101, 114, 80, 105, 100, 58, 32, 45, 49, 10>>
\* "State:\tTracerPid 9\n"
Line_StateTracer9 ==
    <<83, 116, 97, 116, 101, 58, 9, 84, 114, 97, 99, 101, 114, 80, 105, 100, 32, 57, 10>>

ProbeLines ==
    { Line_Name, Line_Tracer0, Line_Tracer4242, Line_TracerBare,
      Line_NoTracer7, Line_TracerNeg, Line_StateTracer9 }
ProbeFiles == SeqsUpTo(ProbeLines, MaxLines)

InitProbe ==
    /\ NoCipher
    /\ sentinel \in Pids
    /\ image = [ks |-> _ks, st |-> _st]
    /\ _rk = [n \in 1..KS_LEN |-> 0]
    /\ _key_ready = 0
    /\ ctx \in StackCtx
    /\ decodes = <<>>
    /\ NoThreads
    /\ proc_status \in ProbeFiles
    /\ NoMain

\* the call _ad_proc()
AdProc ==
    /\ calls = <<>>
    /\ \E oks \in MallocPatterns(2), fo \in BOOLEAN :
         \E g \in {_ad_proc(Vault, sentinel, oks[1], oks[2], fo, proc_status)} :
             After("_ad_proc", g)
    /\ UNCHANGED <<proc_status, cvars, threads, sentinel, state, retval, _sm_flag,
                   exited, exit_code, trace>>

NextProbe == AdProc

SpecProbe == InitProbe /\ [][NextProbe]_vars

\* the lines that contain "TracerPid", and of these the ones where a
\* non-zero integer follows the first ':' and its blanks
FieldLines ==
    { Line_Tracer0, Line_Tracer4242, Line_TracerBare, Line_NoTracer7,
      Line_TracerNeg, Line_StateTracer9 }
NonzeroLines == { Line_Tracer4242, Line_NoTracer7, Line_TracerNeg }
\* the first line of the file that contains the field name, <<>> if none
FirstFieldLine ==
    LET I == {n \in 1..Len(proc_status) : proc_status[n] \in FieldLines}
    IN  IF I = {} THEN <<>>
        ELSE proc_status[CHOOSE n \in I : \A m \in I : n <= m]
\* both strings were decoded; the status file was opened
ProbeDecoded ==
    /\ Len(decodes) = 2
    /\ decodes[1].out = <<47, 112, 114, 111, 99, 47, 115, 101, 108, 102, 47,
                          115, 116, 97, 116, 117, 115>>
    /\ decodes[2].out = <<84, 114, 97, 99, 101, 114, 80, 105, 100>>
ProbeOpened ==
    \E n \in 1..Len(sys) :
        sys[n] = Sys("fopen", <<decodes[1].out>>, 1)

\* C21: _ad_proc returns 1 (Detected) if and only if both strings were
\* decoded, /proc/self/status was opened, some line contains "TracerPid" and
\* the integer after the ':' of the first such line is non-zero; otherwise
\* it returns 0: value zero, no such line, fopen failed, a decode failed.
\* Lines after the first that contains the name do not count
ProbeResult ==
    \A n \in 1..Len(calls) :
        calls[n].fn = "_ad_proc" =>
            /\ calls[n].ret \in {0, 1}
            /\ calls[n].ret = 1 <=>
                   /\ ProbeDecoded
                   /\ ProbeOpened
                   /\ FirstFieldLine \in NonzeroLines
            /\ ~ProbeDecoded => sys = <<>>

\* the probe read a file whose first line with the name has the value 0 and
\* whose second has a non-zero value, and returned 0
FirstLineDecides ==
    /\ calls = <<Call("_ad_proc", 0)>>
    /\ ProbeDecoded /\ ProbeOpened
    /\ proc_status = <<Line_Tracer0, Line_Tracer4242>>

\* the states main is in after the self-modification gate, and those after
\* the platform and marker gates
Gated == {ST_CHECK_OS, ST_CHECK_MARKER, ST_HIDE_PROC, ST_DOWNLOAD, ST_EXEC}
GatedTwice == {ST_DOWNLOAD, ST_EXEC}

GateState ==
    /\ state \in Gated =>
           /\ _sm_flag = 1
           /\ \A f \in {"_ad_ptrace", "_ad_timing", "_ad_proc"} :
                  /\ Cardinality(At(f)) = 1
                  /\ Rets(f) = {0}
    /\ state \in GatedTwice =>
           /\ Cardinality(At("_check_os")) = 1
           /\ Rets("_check_os") = {1}
           /\ \E n \in 1..Len(decodes) :
                  decodes[n] = [off |-> S_LINUX[1], len |-> S_LINUX[2],
                                out |-> Str_Linux]
           /\ Cardinality(At("_check_marker")) = 1
           /\ Rets("_check_marker") = {0}
    /\ Called("_download") \/ Called("_exec_payload") => _sm_flag = 1

\* a step in which _download or _exec_payload is called
GateStep ==
    \A f \in {"_download", "_exec_payload"} :
        At(f)' # At(f) => _sm_flag = 1 /\ _sm_flag' = 1

\* C22: whenever main is at ST_CHECK_OS, ST_CHECK_MARKER, ST_HIDE_PROC,
\* ST_DOWNLOAD or ST_EXEC, _sm_flag is 1 and each of _ad_ptrace, _ad_timing
\* and _ad_proc has been called exactly once and returned 0; at ST_DOWNLOAD
\* and ST_EXEC, moreover, _check_os returned 1 (uname gave "Linux") and
\* _check_marker returned 0.  So _download and _exec_payload are never
\* called while _sm_flag is 0
GateInvariant == [](GateState) /\ [][GateStep]_vars

\* main is about to call _exec_payload, after a _download that returned 0
AtExecuteGate ==
    /\ state = ST_EXEC
    /\ ~exited
    /\ Rets("_download") = {0}
    /\ ~Called("_exec_payload")
    /\ _sm_flag = 1

====
